---- MODULE Spec2Model ----
(***************************************************************************)
(* Model of src/markdown.rs: parse_post_markdown and parse_page_markdown.  *)
(*                                                                         *)
(* Texts are sequences of symbols.  A symbol is one character ("-", "x",   *)
(* "SP" for a space, "NL" for a line feed, "DQ" for a double quote, ...)   *)
(* or a run of characters that every split pattern and every element of    *)
(* the image regular expression treats alike ("<img", "src=", "http",      *)
(* "../", a whole front matter entry such as  title: "T" ).                *)
(***************************************************************************)
EXTENDS Integers, Sequences, FiniteSets, TLC

\* Largest number of pieces a document text is assembled from.
MaxDocPieces == 5
\* Largest number of pieces a rendered HTML text is assembled from.
MaxHtmlPieces == 2
\* Words read per minute (the divisor of the reading time).
WordsPerMinute == 200

Min(S) == CHOOSE m \in S : \A n \in S : m <= n
Max(S) == CHOOSE m \in S : \A n \in S : m >= n

RECURSIVE Concat(_)
Concat(ps) == IF ps = <<>> THEN <<>> ELSE Head(ps) \o Concat(Tail(ps))

\* All texts made of at most n pieces.
Texts(pieces, n) == {Concat(ps) : ps \in UNION {[1..k -> pieces] : k \in 0..n}}

(***************************************************************************)
(* str::find, str::splitn(2, pat), str::starts_with                        *)
(***************************************************************************)
\* Index of the first occurrence of pat in s, 0 when there is none.
Find(s, pat) ==
    LET at == {i \in 1..(Len(s) - Len(pat) + 1) : SubSeq(s, i, i + Len(pat) - 1) = pat}
    IN  IF at = {} THEN 0 ELSE Min(at)

StartsWith(s, pat) == Len(s) >= Len(pat) /\ SubSeq(s, 1, Len(pat)) = pat

\* The items the iterator s.splitn(2, pat) yields: one item when pat does not
\* occur, else the text before the first occurrence and the text after it.
SplitN2(s, pat) ==
    LET i == Find(s, pat)
    IN  IF i = 0 THEN <<s>>
        ELSE <<SubSeq(s, 1, i - 1), SubSeq(s, i + Len(pat), Len(s))>>

\* The text  ---  and a line feed.
OpeningPattern == <<"-", "-", "-", "NL">>
\* A line feed, the text  ---  and a line feed.
ClosingPattern == <<"NL", "-", "-", "-", "NL">>

\* sections.next() is dropped, the second item is the front matter and the rest.
FrontMatterSection(content) ==
    LET sections == SplitN2(content, OpeningPattern)
    IN  IF Len(sections) < 2 THEN [ok |-> FALSE, str |-> <<>>]
        ELSE [ok |-> TRUE, str |-> sections[2]]

\* As BodySections, a missing closing delimiter read as an empty body.
BodySectionsOrEmpty(front_matter_str) ==
    LET sections == SplitN2(front_matter_str, ClosingPattern)
    IN  IF Len(sections) < 2 THEN <<sections[1], <<>>>> ELSE sections

\* As BodySections, the text split at every closing pattern (split, not
\* splitn): the body ends at the next one.
BodySectionsSplitAll(front_matter_str) ==
    LET sections == SplitN2(front_matter_str, ClosingPattern)
    IN  IF Len(sections) < 2 THEN sections
        ELSE <<sections[1], SplitN2(sections[2], ClosingPattern)[1]>>

\* body_sections: the YAML text, then the Markdown body.
BodySections(front_matter_str) == SplitN2(front_matter_str, ClosingPattern)

(***************************************************************************)
(* serde_yaml::from_str into PostFrontMatter / PageFrontMatter             *)
(***************************************************************************)
\* One symbol per front matter entry:  title: "T",  title: "",  date: "D",
\* author: "A".
FieldSyms == {"T1", "T0", "D1", "A1"}
FieldKey(c) == CASE c \in {"T1", "T0"} -> "title" [] c = "D1" -> "date" [] OTHER -> "author"
FieldValue(c) == CASE c = "T1" -> "T" [] c = "T0" -> "" [] c = "D1" -> "D" [] OTHER -> "A"

RECURSIVE Lines(_)
Lines(s) ==
    LET i == Find(s, <<"NL">>)
    IN  IF i = 0 THEN <<s>>
        ELSE <<SubSeq(s, 1, i - 1)>> \o Lines(SubSeq(s, i + 1, Len(s)))

\* A line  <plain scalar>: "value" : a field symbol closing the line; what
\* precedes it belongs to the key, which is then none of the struct's.
IsEntry(l) ==
    /\ Len(l) >= 1
    /\ l[Len(l)] \in FieldSyms
    /\ \A i \in 1..(Len(l) - 1) : l[i] \in {"x", "-", "SP"}
    /\ Len(l) > 1 => l[1] # "SP"
EntryKey(l) == IF Len(l) = 1 THEN FieldKey(l[1]) ELSE "other"

\* The lines of the YAML document: a leading "---" is the document start
\* marker, empty lines carry nothing.
YamlLines(yaml) ==
    LET ls == Lines(yaml)
        body == IF ls[1] = <<"-", "-", "-">> THEN Tail(ls) ELSE ls
    IN  SelectSeq(body, LAMBDA l : l # <<>>)

RequiredFields(kind) == IF kind = "post" THEN {"title", "date", "author"} ELSE {"title", "author"}
\* description and category are Option<String>: None when absent.
OptionalFields(kind) == IF kind = "post" THEN {"description", "category"} ELSE {"description"}

\* As ParseFrontMatter, with a required field that is not given defaulting to
\* the empty string (serde(default)).
ParseFrontMatterDefault(yaml, kind) ==
    LET ls == YamlLines(yaml)
        at(k) == {i \in 1..Len(ls) : EntryKey(ls[i]) = k}
        known == RequiredFields(kind) \cup OptionalFields(kind)
        value(k) == IF at(k) # {} THEN FieldValue(ls[Min(at(k))][1])
                    ELSE IF k \in RequiredFields(kind) THEN "" ELSE "None"
    IN  IF ls = <<>> \/ \E i \in 1..Len(ls) : ~IsEntry(ls[i])
          THEN [ok |-> FALSE, error |-> "yaml", value |-> <<>>]
        ELSE IF \E k \in known : Cardinality(at(k)) > 1
          THEN [ok |-> FALSE, error |-> "duplicate field", value |-> <<>>]
        ELSE [ok |-> TRUE, error |-> "",
              value |-> [k \in known |-> value(k)]]

\* The derived Deserialize: a mapping is required, a field of the struct given
\* twice is an error, a required field not given is an error, other keys are
\* ignored.
ParseFrontMatter(yaml, kind) ==
    LET ls == YamlLines(yaml)
        at(k) == {i \in 1..Len(ls) : EntryKey(ls[i]) = k}
        known == RequiredFields(kind) \cup OptionalFields(kind)
        value(k) == IF at(k) = {} THEN "None" ELSE FieldValue(ls[Min(at(k))][1])
    IN  IF ls = <<>> \/ \E i \in 1..Len(ls) : ~IsEntry(ls[i])
          THEN [ok |-> FALSE, error |-> "yaml", value |-> <<>>]
        ELSE IF \E k \in known : Cardinality(at(k)) > 1
          THEN [ok |-> FALSE, error |-> "duplicate field", value |-> <<>>]
        ELSE IF \E k \in RequiredFields(kind) : at(k) = {}
          THEN [ok |-> FALSE, error |-> "missing field", value |-> <<>>]
        ELSE [ok |-> TRUE, error |-> "",
              value |-> [k \in known |-> value(k)]]

(***************************************************************************)
(* Reading time and file name (posts)                                      *)
(***************************************************************************)
IsWhitespace(c) == c = "SP" \/ c = "NL"

\* markdown_body.split_whitespace().count(): the maximal runs of symbols that
\* are not whitespace; a front matter entry symbol stands for  key: "value"
\* and so holds one space of its own, which ends one word and starts another.
WordCount(body) ==
    Cardinality({i \in 1..Len(body) :
                   ~IsWhitespace(body[i]) /\ (i = 1 \/ IsWhitespace(body[i - 1]))})
    + Cardinality({i \in 1..Len(body) : body[i] \in FieldSyms})

\* (word_count as f64 / 200.0).ceil() as usize
ReadingTime(word_count) == (word_count + WordsPerMinute - 1) \div WordsPerMinute

\* slugify on the titles of the model.
Slugify(title) == IF title = "T" THEN "t" ELSE ""
FileName(title) == <<"docs/posts/", Slugify(title), ".html">>

(***************************************************************************)
(* Rendering: pulldown_cmark's output, then the code block substitution    *)
(***************************************************************************)
\* <pre><code class=DQ language-
PreCodePattern == <<"<pre", ">", "<code class=", "DQ", "language-">>
\* <pre class=DQ line-numbers DQ><code class=DQ language-
PreCodeReplacement ==
    <<"<pre", "SP", "class=", "DQ", "line-numbers", "DQ", ">", "<code class=", "DQ", "language-">>

\* str::replace: every occurrence, left to right, without overlap.
RECURSIVE Replace(_, _, _)
Replace(s, pat, to) ==
    LET i == Find(s, pat)
    IN  IF i = 0 THEN s
        ELSE SubSeq(s, 1, i - 1) \o to \o Replace(SubSeq(s, i + Len(pat), Len(s)), pat, to)

(***************************************************************************)
(* The image regular expression                                            *)
(*     <img  \s+  [^>]*  src=DQ  ([^DQ]+)  DQ  \s+  alt=DQ  ([^DQ]* )  DQ   *)
(*     .*?  /?  >                                                          *)
(* (DQ the double quote, the spaces only separate the elements) with the   *)
(* leftmost-first semantics of the regex crate.                            *)
(***************************************************************************)
NoMatch == [ok |-> FALSE, start |-> 0, end |-> 0, src |-> <<>>, alt |-> <<>>]

\* Smallest index from `from` on whose symbol is in cs, 0 when there is none.
FirstIn(h, from, cs) ==
    IF \E i \in from..Len(h) : h[i] \in cs
    THEN CHOOSE i \in from..Len(h) : h[i] \in cs /\ \A k \in from..(i - 1) : h[k] \notin cs
    ELSE 0

\* Smallest index from `from` on whose symbol is not in cs, 0 when there is none.
FirstNotIn(h, from, cs) ==
    IF \E i \in from..Len(h) : h[i] \notin cs
    THEN CHOOSE i \in from..Len(h) : h[i] \notin cs /\ \A k \in from..(i - 1) : h[k] \in cs
    ELSE 0

Whitespace == {"SP", "NL"}

\* As ImgTail, the alt attribute optional.
ImgTailAltOptional(h, j) ==
    LET q1 == FirstIn(h, j + 2, {"DQ"})
        g  == FirstIn(h, q1 + 1, {">"})
    IN  IF /\ j + 1 <= Len(h) /\ h[j + 1] = "DQ"
           /\ q1 > j + 2
           /\ g # 0
           /\ \A k \in (q1 + 1)..(g - 1) : h[k] # "NL"
        THEN [ok |-> TRUE, start |-> 0, end |-> g,
              src |-> SubSeq(h, j + 2, q1 - 1), alt |-> <<>>]
        ELSE NoMatch

\* The part from  src=DQ  on, with  src=  at index j.
\* Each capture ends at the first quote; `.*?` is lazy and `.` matches no line
\* feed, so the match ends at the first `>` if no line feed comes before it
\* (the optional `/` is one of the symbols `.` matches).
ImgTail(h, j) ==
    LET q1 == FirstIn(h, j + 2, {"DQ"})
        a  == FirstNotIn(h, q1 + 1, Whitespace)
        q2 == FirstIn(h, a + 2, {"DQ"})
        g  == FirstIn(h, q2 + 1, {">"})
    IN  IF /\ j + 1 <= Len(h) /\ h[j + 1] = "DQ"
           /\ q1 > j + 2
           /\ a > q1 + 1 /\ h[a] = "alt="
           /\ a + 1 <= Len(h) /\ h[a + 1] = "DQ"
           /\ q2 # 0
           /\ g # 0
           /\ \A k \in (q2 + 1)..(g - 1) : h[k] # "NL"
        THEN [ok |-> TRUE, start |-> 0, end |-> g,
              src |-> SubSeq(h, j + 2, q1 - 1), alt |-> SubSeq(h, a + 2, q2 - 1)]
        ELSE NoMatch

\* A match starting at s: `<img`, whitespace, then [^>]* greedy, so the last
\* src=  before any `>` from which the rest matches.
MatchAt(h, s) ==
    LET js == {j \in (s + 2)..Len(h) :
                 /\ h[j] = "src="
                 /\ \A k \in (s + 2)..(j - 1) : h[k] # ">"
                 /\ ImgTail(h, j).ok}
    IN  IF h[s] = "<img" /\ s + 1 <= Len(h) /\ IsWhitespace(h[s + 1]) /\ js # {}
        THEN [ImgTail(h, Max(js)) EXCEPT !.start = s]
        ELSE NoMatch

\* The next match of replace_all at or after index from.
NextMatch(h, from) ==
    LET at == {s \in from..Len(h) : MatchAt(h, s).ok}
    IN  IF at = {} THEN NoMatch ELSE MatchAt(h, Min(at))

(***************************************************************************)
(* The replacement closure                                                 *)
(***************************************************************************)
\* src.starts_with(http)
IsRemote(src) == StartsWith(src, <<"http">>)

\* As TrimStartMatches, one leading marker removed (strip_prefix).
TrimOnce(src) == IF StartsWith(src, <<"../">>) THEN Tail(src) ELSE src

\* src.trim_start_matches(../)
RECURSIVE TrimStartMatches(_)
TrimStartMatches(src) ==
    IF StartsWith(src, <<"../">>) THEN TrimStartMatches(Tail(src)) ELSE src

\* Path::new(docs).join(cleaned_src): an absolute path replaces the base.
SrcPath(cleaned_src) ==
    IF StartsWith(cleaned_src, <<"/">>) THEN cleaned_src
    ELSE <<"docs", "/">> \o cleaned_src

\* format! of a dimension with {}.
Digits == <<"0", "1", "2", "3", "4", "5", "6", "7", "8", "9">>
RECURSIVE Display(_)
Display(n) == IF n < 10 THEN <<Digits[n + 1]>> ELSE Display(n \div 10) \o <<Digits[(n % 10) + 1]>>

\* <div class='shimmer aspect-ratio' style='--aspect-ratio:{} / {}'><img src=DQ{}DQ alt=DQ{}DQ/></div>
Wrapper(dims, src, alt) ==
    <<"<div class='shimmer aspect-ratio' style='--aspect-ratio:">> \o Display(dims[1])
      \o <<" / ">> \o Display(dims[2]) \o <<"'>", "<img", "SP", "src=", "DQ">> \o src
      \o <<"DQ", "SP", "alt=", "DQ">> \o alt \o <<"DQ", "/", ">", "</div>">>

\* Dimensions of the images that can be decoded.
ImageDims == {<<2, 1>>}
Outcomes(statuses) ==
    {[status |-> st, dims |-> <<>>] : st \in statuses}
      \cup {[status |-> "ok", dims |-> d] : d \in ImageDims}

\* What send() and the steps after it can come to other than an image: the
\* request times out or fails otherwise, the status is no success, the
\* payload cannot be read, the payload cannot be decoded.
RemoteFailures == {"timeout", "transport", "status", "payload", "decode"}
\* build() of the client fails, or the request comes to one of the above, or
\* to an image.
RemoteOutcomes == Outcomes({"build"} \cup RemoteFailures)
\* ImageReader::open fails, or opens a file whose header gives no dimensions,
\* or gives the dimensions.
LocalOutcomes == Outcomes({"missing", "header"})

\* The closure's return value on the remote branch (client built).
RemoteReplacement(outcome, src, alt) ==
    IF outcome.status = "ok" THEN Wrapper(outcome.dims, src, alt) ELSE <<>>

\* into_dimensions().unwrap_or((0, 0)) of an opened file.
LocalDims(outcome) == IF outcome.status = "ok" THEN outcome.dims ELSE <<0, 0>>

\* The closure's return value on the local branch.
LocalReplacement(outcome, src, alt) ==
    IF outcome.status = "missing" THEN <<>> ELSE Wrapper(LocalDims(outcome), src, alt)

(***************************************************************************)
(* Inputs: the file's text, and what the Markdown renderer returns         *)
(***************************************************************************)
\* title, date and author given; the title empty; the author missing.
HdrFull == <<"T1", "NL", "D1", "NL", "A1", "NL">>
HdrEmptyTitle == <<"T0", "NL", "D1", "NL", "A1", "NL">>
HdrNoAuthor == <<"T1", "NL", "D1", "NL">>
\* n words, a space after each.
Words(n) == [i \in 1..(2 * n) |-> IF i % 2 = 1 THEN "x" ELSE "SP"]

DocPieces == {OpeningPattern, HdrFull, HdrEmptyTitle, HdrNoAuthor, <<"x">>, <<"NL">>}

\* Posts and pages whose body is n words long, n around the multiples of the
\* words read per minute.
LongWordCounts ==
    {WordsPerMinute - 1, WordsPerMinute, WordsPerMinute + 1,
     2 * WordsPerMinute, 2 * WordsPerMinute + 1}
LongDocs == {OpeningPattern \o HdrFull \o OpeningPattern \o Words(n) : n \in LongWordCounts}

\* An <img> element as the renderer writes it.
Tag(src, alt) ==
    <<"<img", "SP", "src=", "DQ">> \o src \o <<"DQ", "SP", "alt=", "DQ">> \o alt
      \o <<"DQ", "SP", "/", ">">>
TagLocal == Tag(<<"x">>, <<"x">>)
TagParent == Tag(<<"../", "../", "x">>, <<>>)
TagAbsolute == Tag(<<"/", "x">>, <<"x">>)
TagRemote == Tag(<<"http", "x">>, <<"x">>)
TagNoAlt == <<"<img", "SP", "src=", "DQ", "x", "DQ", ">">>
TagNoSrc == <<"<img", "SP", "alt=", "DQ", "x", "DQ", ">">>
TagAltFirst == <<"<img", "SP", "alt=", "DQ", "x", "DQ", "SP", "src=", "DQ", "x", "DQ", ">">>

HtmlPieces ==
    {TagLocal, TagParent, TagAbsolute, TagRemote, TagNoAlt, TagNoSrc, TagAltFirst,
     <<"x">>, PreCodePattern}

\* The one document whose rendering ranges over every HTML text of the model;
\* the other documents are rendered to one of two texts.
BaselineDoc == OpeningPattern \o HdrFull \o OpeningPattern \o <<"x">>
BaselineHtml == {<<"x">>, TagLocal}
HtmlInputs == Texts(HtmlPieces, MaxHtmlPieces)
DocInputs == Texts(DocPieces, MaxDocPieces) \cup LongDocs \cup {BaselineDoc}

\* The file at file_path cannot be read.
NoFile == <<"ENOENT">>

\* What Parser::new_ext(markdown_body, Options::all()) and push_html may
\* produce: the renderer is an external library.
RenderOutputs(content) == IF content = BaselineDoc THEN HtmlInputs ELSE BaselineHtml

(***************************************************************************)
(* State                                                                   *)
(***************************************************************************)
VARIABLES
    kind,               \* "post": parse_post_markdown, "page": parse_page_markdown
    file_text,          \* the text of the file at file_path, or NoFile
    pc,                 \* the statement the function is at
    content,
    front_matter_str,
    front_matter_yaml,
    markdown_body,
    front_matter,
    html_output,
    word_count,
    reading_time,
    file_name,
    last_match,         \* replace_all: the index after the last match
    rewritten_html,     \* replace_all: the text built so far
    calls,              \* the closure's calls so far: match, outcome, file opened, return value
    result,             \* "none", "Ok", "Err" or "panic"
    error

vars == <<kind, file_text, pc, content, front_matter_str, front_matter_yaml, markdown_body,
          front_matter, html_output, word_count, reading_time, file_name, last_match,
          rewritten_html, calls, result, error>>

split_vars == <<front_matter_str, front_matter_yaml, markdown_body>>
post_vars == <<word_count, reading_time, file_name>>
rewrite_vars == <<last_match, rewritten_html, calls>>

Init ==
    /\ kind \in {"post", "page"}
    /\ file_text \in DocInputs \cup {NoFile}
    /\ pc = "read"
    /\ content = <<>>
    /\ front_matter_str = <<>>
    /\ front_matter_yaml = <<>>
    /\ markdown_body = <<>>
    /\ front_matter = <<>>
    /\ html_output = <<>>
    /\ word_count = 0
    /\ reading_time = 0
    /\ file_name = <<>>
    /\ last_match = 1
    /\ rewritten_html = <<>>
    /\ calls = <<>>
    /\ result = "none"
    /\ error = ""

\* The function returns Err(e) through `?`.
Fail(e) == pc' = "done" /\ result' = "Err" /\ error' = e

\* let content = fs::read_to_string(file_path)?;
ReadFile ==
    /\ pc = "read"
    /\ IF file_text = NoFile
       THEN Fail("io") /\ UNCHANGED content
       ELSE content' = file_text /\ pc' = "split" /\ UNCHANGED <<result, error>>
    /\ UNCHANGED <<kind, file_text, split_vars, front_matter, html_output, post_vars,
                   rewrite_vars>>

\* Steps 1 and 2: splitn(2, ...), the first item dropped, the second required.
SplitFrontMatter ==
    /\ pc = "split"
    /\ LET section == FrontMatterSection(content)
       IN  IF section.ok
           THEN front_matter_str' = section.str /\ pc' = "body" /\ UNCHANGED <<result, error>>
           ELSE Fail("Missing front matter section (--- line not found)")
                /\ UNCHANGED front_matter_str
    /\ UNCHANGED <<kind, file_text, content, front_matter_yaml, markdown_body, front_matter,
                   html_output, post_vars, rewrite_vars>>

\* Step 3: the YAML text and the Markdown body.
SplitBody ==
    /\ pc = "body"
    /\ LET body_sections == BodySections(front_matter_str)
       IN  IF Len(body_sections) >= 2
           THEN /\ front_matter_yaml' = body_sections[1]
                /\ markdown_body' = body_sections[2]
                /\ pc' = "yaml"
                /\ UNCHANGED <<result, error>>
           ELSE /\ Fail("Missing Markdown body after front matter")
                /\ UNCHANGED <<front_matter_yaml, markdown_body>>
    /\ UNCHANGED <<kind, file_text, content, front_matter_str, front_matter, html_output,
                   post_vars, rewrite_vars>>

\* Step 4: serde_yaml::from_str(front_matter_yaml)?
Deserialize ==
    /\ pc = "yaml"
    /\ LET parsed == ParseFrontMatter(front_matter_yaml, kind)
       IN  IF parsed.ok
           THEN front_matter' = parsed.value /\ pc' = "render" /\ UNCHANGED <<result, error>>
           ELSE Fail(parsed.error) /\ UNCHANGED front_matter
    /\ UNCHANGED <<kind, file_text, content, split_vars, html_output, post_vars, rewrite_vars>>

\* Step 5: the renderer's output with the code block substitution applied.
Render ==
    /\ pc = "render"
    /\ \E html \in RenderOutputs(content) :
         html_output' = Replace(html, PreCodePattern, PreCodeReplacement)
    /\ pc' = IF kind = "post" THEN "reading" ELSE "rewrite"
    /\ UNCHANGED <<kind, file_text, content, split_vars, front_matter, post_vars, rewrite_vars,
                   result, error>>

\* Step 6 (posts): the word count and the reading time.
ComputeReadingTime ==
    /\ pc = "reading"
    /\ word_count' = WordCount(markdown_body)
    /\ reading_time' = ReadingTime(WordCount(markdown_body))
    /\ pc' = "name"
    /\ UNCHANGED <<kind, file_text, content, split_vars, front_matter, html_output, file_name,
                   rewrite_vars, result, error>>

\* Step 7 (posts): the file name from the slug of the title.
ComputeFileName ==
    /\ pc = "name"
    /\ file_name' = FileName(front_matter.title)
    /\ pc' = "rewrite"
    /\ UNCHANGED <<kind, file_text, content, split_vars, front_matter, html_output,
                   word_count, reading_time, rewrite_vars, result, error>>

\* replace_all appends the text before the match and the closure's value.
Replaced(m, value) ==
    /\ rewritten_html' = rewritten_html \o SubSeq(html_output, last_match, m.start - 1) \o value
    /\ last_match' = m.end + 1

\* The closure on a match whose src starts with http.
RewriteRemote ==
    /\ pc = "rewrite"
    /\ LET m == NextMatch(html_output, last_match)
       IN  /\ m.ok
           /\ IsRemote(m.src)
           /\ \E outcome \in RemoteOutcomes :
                IF outcome.status = "build"
                THEN \* Client::builder()...build().unwrap()
                     /\ pc' = "done" /\ result' = "panic" /\ error' = "unwrap"
                     /\ calls' = Append(calls, [match |-> m, outcome |-> outcome,
                                                path |-> <<>>, value |-> <<>>])
                     /\ UNCHANGED <<last_match, rewritten_html>>
                ELSE /\ Replaced(m, RemoteReplacement(outcome, m.src, m.alt))
                     /\ calls' = Append(calls, [match |-> m, outcome |-> outcome,
                                                path |-> <<>>,
                                                value |-> RemoteReplacement(outcome, m.src, m.alt)])
                     /\ UNCHANGED <<pc, result, error>>
    /\ UNCHANGED <<kind, file_text, content, split_vars, front_matter, html_output, post_vars>>

\* The closure on any other match: the file under docs.
RewriteLocal ==
    /\ pc = "rewrite"
    /\ LET m == NextMatch(html_output, last_match)
       IN  /\ m.ok
           /\ ~IsRemote(m.src)
           /\ \E outcome \in LocalOutcomes :
                /\ Replaced(m, LocalReplacement(outcome, m.src, m.alt))
                /\ calls' = Append(calls, [match |-> m, outcome |-> outcome,
                                           path |-> SrcPath(TrimStartMatches(m.src)),
                                           value |-> LocalReplacement(outcome, m.src, m.alt)])
    /\ UNCHANGED <<kind, file_text, content, split_vars, front_matter, html_output, post_vars,
                   pc, result, error>>

\* No match is left: replace_all appends the rest of the text.
RewriteRest ==
    /\ pc = "rewrite"
    /\ ~NextMatch(html_output, last_match).ok
    /\ rewritten_html' = rewritten_html \o SubSeq(html_output, last_match, Len(html_output))
    /\ last_match' = Len(html_output) + 1
    /\ pc' = "return"
    /\ UNCHANGED <<kind, file_text, content, split_vars, front_matter, html_output, post_vars,
                   calls, result, error>>

\* Ok(Post { .. }) / Ok(Page { .. })
ReturnOk ==
    /\ pc = "return"
    /\ pc' = "done"
    /\ result' = "Ok"
    /\ UNCHANGED <<kind, file_text, content, split_vars, front_matter, html_output, post_vars,
                   rewrite_vars, error>>

Next ==
    \/ ReadFile
    \/ SplitFrontMatter
    \/ SplitBody
    \/ Deserialize
    \/ Render
    \/ ComputeReadingTime
    \/ ComputeFileName
    \/ RewriteRemote
    \/ RewriteLocal
    \/ RewriteRest
    \/ ReturnOk

Spec == Init /\ [][Next]_vars

(***************************************************************************)
(* Properties                                                              *)
(***************************************************************************)
\* The indices at which a line made of exactly  ---  starts.
DelimiterLines(text) ==
    {i \in 1..(Len(text) - 2) :
       /\ SubSeq(text, i, i + 2) = <<"-", "-", "-">>
       /\ (i = 1 \/ text[i - 1] = "NL")
       /\ (i + 3 > Len(text) \/ text[i + 3] = "NL")}

\* The body has been handed to the renderer.
Rendered ==
    \/ pc \in {"reading", "name", "rewrite", "return"}
    \/ pc = "done" /\ result # "Err"

\* The front matter has been deserialized.
Parsed == pc = "render" \/ Rendered

\* replace_all has gone through the whole text.
Rewritten == pc = "return" \/ (pc = "done" /\ result = "Ok")

IsLocalCall(c) == ~StartsWith(c.match.src, <<"http">>)

\* C1: the reading time of a post is max(1, ceil(n / 200)), n the number of
\* whitespace-separated tokens of the body: 1 for 200 tokens, 2 for 201, and
\* 1 for none.
C1_ReadingTimeAtLeastOne ==
    (kind = "post" /\ result = "Ok") =>
        LET n == word_count
            minutes == (n + WordsPerMinute - 1) \div WordsPerMinute
        IN  reading_time = IF minutes < 1 THEN 1 ELSE minutes

\* C2: a text that does not begin with the line  ---  is refused: the
\* conversion returns an error and no Post or Page.
C2_RefusedUnlessDelimiterFirst ==
    (file_text # NoFile /\ ~(1 \in DelimiterLines(file_text))) =>
        /\ result # "Ok"
        /\ pc = "done" => result = "Err"

\* C3: a text that begins with the line  ---  and has no later line  ---
\* is refused with an error before anything is rendered or any image is
\* resolved, and no Post or Page is returned.
OpeningWithoutClosing(text) ==
    /\ text # NoFile
    /\ StartsWith(text, OpeningPattern)
    /\ DelimiterLines(text) = {1}
C3_NoClosingDelimiterFails ==
    OpeningWithoutClosing(file_text) =>
        /\ pc \in {"read", "split", "body", "done"}
        /\ result # "Ok"
        /\ pc = "done" => result = "Err"
        /\ html_output = <<>> /\ rewritten_html = <<>> /\ calls = <<>>
        /\ markdown_body = <<>>
C3_Witness ==
    /\ OpeningWithoutClosing(file_text)
    /\ Len(file_text) > Len(OpeningPattern)
    /\ pc = "done"
    /\ error = "Missing Markdown body after front matter"

\* The document is an opening line  ---, a metadata block, a closing line
\* --- and a body.
WellFormed(text) ==
    /\ text # NoFile
    /\ StartsWith(text, OpeningPattern)
    /\ \E i \in DelimiterLines(text) : i > 1 /\ i + 3 <= Len(text)
SecondDelimiter(text) == Min(DelimiterLines(text) \ {1})
AfterSecondDelimiter(text) == SubSeq(text, SecondDelimiter(text) + 4, Len(text))
\* The metadata block holds at least one line.
MetadataNotEmpty(text) == SecondDelimiter(text) > Len(OpeningPattern) + 1

\* C4 as stated: for every well-formed document the body handed to the
\* renderer is the text after the second delimiter line.
C4_BodyAfterSecondDelimiter ==
    (WellFormed(file_text) /\ Rendered) =>
        markdown_body = AfterSecondDelimiter(file_text)
\* C4 as amended: for every well-formed document whose metadata block is not
\* empty, the body handed to the renderer is the text after the second
\* delimiter line, byte for byte, further  ---  lines included.
C4_BodyAfterMetadata ==
    (WellFormed(file_text) /\ MetadataNotEmpty(file_text) /\ Rendered) =>
        markdown_body = AfterSecondDelimiter(file_text)
C4_Witness ==
    /\ WellFormed(file_text) /\ MetadataNotEmpty(file_text) /\ Rendered
    /\ markdown_body # <<>>
    /\ markdown_body[1] = "NL"
    /\ DelimiterLines(markdown_body) # {}

\* No <img followed by a src attribute followed by an alt attribute.
NoImgSrcAlt(h) ==
    ~\E i \in 1..Len(h) :
        /\ h[i] = "<img"
        /\ \E j \in (i + 1)..Len(h) :
             /\ h[j] = "src="
             /\ \E k \in (j + 1)..Len(h) : h[k] = "alt="

\* How often the text t occurs in h.
Occurrences(h, t) ==
    Cardinality({i \in 1..(Len(h) - Len(t) + 1) : SubSeq(h, i, i + Len(t) - 1) = t})

RECURSIVE Spliced(_, _, _)
Spliced(h, cs, n) ==
    IF n = 0 THEN h
    ELSE Spliced(SubSeq(h, 1, cs[n].match.start - 1) \o cs[n].value
                   \o SubSeq(h, cs[n].match.end + 1, Len(h)), cs, n - 1)

\* C6: when a matched tag names a local file that does not exist, the
\* conversion still returns Ok, that match is replaced by the empty string and
\* every other byte, the other matches' replacements included, is unaffected.
C6_MissingLocalFileOmitted ==
    (pc = "done" /\ \E i \in 1..Len(calls) : calls[i].outcome.status = "missing") =>
        /\ result = "Ok"
        /\ \A i \in 1..Len(calls) : calls[i].outcome.status = "missing" => calls[i].value = <<>>
        /\ rewritten_html = Spliced(html_output, calls, Len(calls))

\* C7: every failing outcome of a remote resolution has the match replaced by
\* the empty string and the conversion going on to Ok; no error or panic
\* escapes from any step of the remote path.
C7_RemoteFailureContained ==
    \A i \in 1..Len(calls) :
        (~IsLocalCall(calls[i]) /\ calls[i].outcome.status # "ok") =>
            /\ calls[i].value = <<>>
            /\ result \notin {"Err", "panic"}
            /\ pc = "done" => result = "Ok"

\* C8 as stated: the title and the author of a returned Post or Page are not
\* empty.
C8_TitleAuthorNotEmpty ==
    result = "Ok" => front_matter.title # "" /\ front_matter.author # ""
\* The YAML text holds a line that gives the field.
HasField(yaml, syms) ==
    \E i \in 1..Len(yaml) :
        /\ yaml[i] \in syms
        /\ (i = 1 \/ yaml[i - 1] = "NL")
        /\ (i = Len(yaml) \/ yaml[i + 1] = "NL")
\* C8 as amended: the title and the author (and the date of a post) of a
\* returned Post or Page are the strings the metadata block gives, the empty
\* string included; a block that gives no title or no author (or, for a post,
\* no date) makes the conversion fail.
C8_RequiredFieldsGiven ==
    Parsed =>
        /\ HasField(front_matter_yaml, {"T1", "T0"})
        /\ HasField(front_matter_yaml, {"A1"})
        /\ kind = "post" => HasField(front_matter_yaml, {"D1"})
        /\ front_matter.title = (IF HasField(front_matter_yaml, {"T1"}) THEN "T" ELSE "")
        /\ front_matter.author = "A"
        /\ kind = "post" => front_matter.date = "D"
C8_Witness ==
    /\ result = "Ok"
    /\ front_matter.title = ""
    /\ front_matter.author = "A"

\* C9: a local file that opens but whose header cannot be read has its match
\* replaced by the empty string, so that every wrapper of the output carries
\* a width and a height above 0.
C9_WrapperDimensionsPositive ==
    /\ \A i \in 1..Len(calls) : calls[i].outcome.status = "header" => calls[i].value = <<>>
    /\ \A i \in 1..Len(rewritten_html) :
         rewritten_html[i] = "<div class='shimmer aspect-ratio' style='--aspect-ratio:" =>
             rewritten_html[i + 1] # "0" /\ rewritten_html[i + 3] # "0"

\* The src without its first leading  ../  marker.
WithoutFirstParent(src) == IF src # <<>> /\ src[1] = "../" THEN SubSeq(src, 2, Len(src)) ELSE src
\* The src without any of its leading  ../  markers.
WithoutLeadingParents(src) ==
    LET rest == {i \in 1..Len(src) : src[i] # "../"}
    IN  IF rest = {} THEN <<>> ELSE SubSeq(src, Min(rest), Len(src))
\* docs joined with a path: an absolute path is opened as it is.
UnderDocs(path) == IF path # <<>> /\ path[1] = "/" THEN path ELSE <<"docs", "/">> \o path

\* C10 as stated: the file read for a local src is docs joined with the src
\* less one leading  ../  marker.
C10_FirstParentMarkerRemoved ==
    \A i \in 1..Len(calls) :
        IsLocalCall(calls[i]) => calls[i].path = UnderDocs(WithoutFirstParent(calls[i].match.src))
\* C10 as amended: the file read for a local src is docs joined with the src
\* less every leading  ../  marker; a src without one is joined unchanged,
\* and a remainder that starts with  /  is opened as it is.
C10_AllParentMarkersRemoved ==
    \A i \in 1..Len(calls) :
        IsLocalCall(calls[i]) => calls[i].path = UnderDocs(WithoutLeadingParents(calls[i].match.src))
C10_Witness ==
    \E i \in 1..Len(calls) :
        /\ StartsWith(calls[i].match.src, <<"../", "../">>)
        /\ calls[i].path = <<"docs", "/", "x">>

====
